---- MODULE Spec2Model ----
(***************************************************************************)
(* Model of src/src/app.py: a Streamlit page that connects to a database,  *)
(* asks a language model for SQL, extracts the SQL text from the model's   *)
(* answer and optionally runs it.                                          *)
(*                                                                         *)
(* Text that the program slices (the model's raw answer, the extracted     *)
(* SQL) is a sequence of one-character strings, so that split, strip and   *)
(* replace are computed character by character as Python computes them.    *)
(* Text that is only passed along (messages, schema descriptions) is a     *)
(* plain string.                                                           *)
(***************************************************************************)
EXTENDS Integers, Sequences, FiniteSets, TLC

VARIABLES
    db,             \* st.session_state["db"]: Absent, None or a handle (1..)
    rendered,       \* the script has run at least once (the page exists)
    nconn,          \* number of handles SQLDatabase.from_uri has returned
    clicked,        \* button clicked in the latest script run
    db_before,      \* st.session_state.get("db") when the latest run began
    conn_raised,    \* exception text raised in the latest connect try block
    sidebar,        \* sidebar status message of the latest run
    user_question,  \* value of the question field in the latest run
    gen_raised,     \* stage that raised in the latest generation try block
    messages,       \* st.warning/success/error/... calls of the latest run
    raw_output,     \* the script variable raw_output, if it was assigned
    code_shown,     \* argument of st.code in the latest run, if any
    generated_sql,  \* the script variable generated_sql at the end of the run
    exec_attempted, \* the body of the if at line 203 was entered
    db_calls,       \* calls made on the database collaborator
    llm_calls,      \* calls made on the completion collaborator
    arg,            \* argument of a direct function call
    cur,            \* text being transformed by a direct call
    prev,           \* the text before the latest FixNames application
    nfix,           \* number of FixNames applications so far
    extracted,      \* extract_sql has been applied to arg
    ret             \* outcome of the latest direct get_schema / run call

vars == <<db, rendered, nconn, clicked, db_before, conn_raised, sidebar,
          user_question, gen_raised, messages, raw_output, code_shown,
          generated_sql, exec_attempted, db_calls, llm_calls, arg, cur, prev, nfix,
          extracted, ret>>

sessionVars == <<rendered, nconn, clicked, db_before, conn_raised, sidebar,
                 user_question, gen_raised, messages, raw_output,
                 code_shown, generated_sql, exec_attempted, llm_calls>>

textVars == <<arg, cur, prev, nfix, extracted>>

----------------------------------------------------------------------------
(* Bounds *)

MaxChunks == 4
MaxFix == 2
MaxConnects == 2

----------------------------------------------------------------------------
(* Python str operations, on sequences of characters *)

Whitespace == {" ", "\n", "\t"}

IsPrefixAt(s, pat, i) ==
    /\ i >= 1
    /\ i + Len(pat) - 1 <= Len(s)
    /\ SubSeq(s, i, i + Len(pat) - 1) = pat

\* str.find, 1-based; 0 when pat does not occur at or after from
Find(s, pat, from) ==
    LET hits == {i \in from..(Len(s) - Len(pat) + 1) : IsPrefixAt(s, pat, i)}
    IN IF hits = {} THEN 0
       ELSE CHOOSE i \in hits : \A j \in hits : i <= j

\* pat in s
Contains(s, pat) == Find(s, pat, 1) # 0

RECURSIVE Split(_, _)
\* s.split(sep): the pieces between the occurrences of sep, left to right
Split(s, sep) ==
    LET i == Find(s, sep, 1)
    IN IF i = 0 THEN <<s>>
       ELSE <<SubSeq(s, 1, i - 1)>>
            \o Split(SubSeq(s, i + Len(sep), Len(s)), sep)

RECURSIVE Replace(_, _, _)
\* s.replace(old, new): every non-overlapping occurrence, left to right
Replace(s, old, new) ==
    LET i == Find(s, old, 1)
    IN IF i = 0 THEN s
       ELSE SubSeq(s, 1, i - 1) \o new
            \o Replace(SubSeq(s, i + Len(old), Len(s)), old, new)

\* s.strip()
Strip(s) ==
    LET keep == {i \in 1..Len(s) : s[i] \notin Whitespace}
    IN IF keep = {} THEN <<>>
       ELSE SubSeq(s, CHOOSE i \in keep : \A j \in keep : i <= j,
                      CHOOSE i \in keep : \A j \in keep : i >= j)

----------------------------------------------------------------------------
(* The literals of extract_sql *)

\* The grave accent U+0060, which a TLA+ string literal cannot hold
BT == "U+0060"

FenceSql == <<BT, BT, BT, "s", "q", "l">>
Fence == <<BT, BT, BT>>
FromActors == <<"F", "R", "O", "M", " ", "a", "c", "t", "o", "r", "s">>
FromActor == <<"F", "R", "O", "M", " ", "a", "c", "t", "o", "r">>
JoinRoles == <<"J", "O", "I", "N", " ", "r", "o", "l", "e", "s">>
JoinFilmActor == <<"J", "O", "I", "N", " ", "f", "i", "l", "m", "_",
                   "a", "c", "t", "o", "r">>

\* FixNames with the first replacement's arguments swapped
FixNames_Swapped(s) ==
    Replace(Replace(s, FromActor, FromActors), JoinRoles, JoinFilmActor)

\* lines 164-165: the two literal replacements, in order
FixNames(s) == Replace(Replace(s, FromActors, FromActor), JoinRoles, JoinFilmActor)

\* Unfence splitting on the bare fence instead of the sql marker
Unfence_BareFence(query_output) ==
    IF Contains(query_output, FenceSql) /\ Contains(query_output, Fence)
    THEN Strip(Split(query_output, Fence)[2])
    ELSE Strip(query_output)

\* lines 159-162: the fenced block, or the whole answer
Unfence(query_output) ==
    IF Contains(query_output, FenceSql) /\ Contains(query_output, Fence)
    THEN Strip(Split(Split(query_output, FenceSql)[2], Fence)[1])
    ELSE Strip(query_output)

extract_sql(query_output) == FixNames(Unfence(query_output))

----------------------------------------------------------------------------
(* Values *)

\* "db" not yet in st.session_state
Absent == -1
\* Python's None as the stored handle; a handle is a number 1, 2, ...
None == 0

\* an optional text: NoText is Python's None, Some(t) a str
NoText == <<>>
Some(t) == <<t>>

\* st.session_state.get("db")
SessionGet(d) == IF d = Absent THEN None ELSE d

\* EnsureDb without its guard: the handle is reset in every run
EnsureDb_Always(d) == None

\* lines 83-84: the handle is set to None only when the key is missing
EnsureDb(d) == IF d = Absent THEN None ELSE d

\* truth value of st.session_state.get("db"): an SQLDatabase object is true
HandleTruthy(d) == SessionGet(d) # None

\* SqlTruthy as "generated_sql is not None"
SqlTruthy_NotNone(g) == g # NoText

\* truth value of generated_sql: None and "" are false
SqlTruthy(g) == g # NoText /\ g[1] # <<>>

Sentinel == "No database connected."
NoConnection == "No database connection."

\* a message drawn on the page: <<widget, text, detail>>
NoMsg == <<"", "", "">>
Msg(widget, text, detail) == <<widget, text, detail>>

----------------------------------------------------------------------------
(* What the collaborators may answer *)

Exceptions == {"timed out", "access denied"}
Schemas == {"CREATE TABLE actor", "CREATE TABLE film_actor"}
Results == {"[]", "[('GINA', 'DEGENERES')]"}
Questions == {"", "Which actor has the most films?"}

\* a call that returns one of vals or raises
Outcomes(vals, none) ==
    {[raised |-> "", val |-> v] : v \in vals}
        \cup {[raised |-> e, val |-> none] : e \in Exceptions}

RECURSIVE Concat(_)
Concat(parts) ==
    IF parts = <<>> THEN <<>> ELSE Head(parts) \o Concat(Tail(parts))

Nl == <<"\n">>
Sp == <<" ">>
SelectX == <<"S", "E", "L", "E", "C", "T", " ", "1">>

\* answers of the completion client
RawOutputs ==
    { Concat(<<FenceSql, Nl, FromActors, Sp, JoinRoles, Nl, Fence>>),
      Concat(<<SelectX, Sp, FromActors, Nl>>),
      Concat(<<Sp, FenceSql, Nl, Fence, SelectX>>),
      Concat(<<Sp, Nl>>),
      <<>> }

----------------------------------------------------------------------------
(* The functions of the script *)

\* lines 153-156; info is what db.get_table_info() answers
get_schema(d, info) ==
    IF SessionGet(d) = None
    THEN [raised |-> "", val |-> Sentinel, calls |-> <<>>]
    ELSE [raised |-> info.raised, val |-> info.val,
          calls |-> <<[op |-> "get_table_info", on |-> d, sql |-> NoText,
                      ans |-> info]>>]

\* run_generated_query without its check of the handle
run_generated_query_NoCheck(d, sql, res) ==
    [raised |-> res.raised, val |-> res.val,
     calls |-> <<[op |-> "run", on |-> d, sql |-> Some(sql), ans |-> res]>>]

\* lines 178-181; res is what db.run(generated_sql) answers
run_generated_query(d, sql, res) ==
    IF SessionGet(d) = None
    THEN [raised |-> NoConnection, val |-> "", calls |-> <<>>]
    ELSE [raised |-> res.raised, val |-> res.val,
          calls |-> <<[op |-> "run", on |-> d, sql |-> Some(sql),
                      ans |-> res]>>]

\* lines 168-173 and 195: sql_chain.invoke({"question": q})
\* schema assignment, prompt template, completion call, output parser
SqlChain(d, q, info, promptExc, llmOut) ==
    LET sch == get_schema(d, info)
        call == <<[schema |-> sch.val, question |-> q]>>
    IN IF sch.raised # ""
       THEN [raised |-> sch.raised, stage |-> "schema", raw |-> NoText,
             db_calls |-> sch.calls, llm_calls |-> <<>>]
       ELSE IF promptExc # ""
       THEN [raised |-> promptExc, stage |-> "prompt", raw |-> NoText,
             db_calls |-> sch.calls, llm_calls |-> <<>>]
       ELSE IF llmOut.raised # ""
       THEN [raised |-> llmOut.raised, stage |-> "llm", raw |-> NoText,
             db_calls |-> sch.calls, llm_calls |-> call]
       ELSE [raised |-> "", stage |-> "none", raw |-> Some(llmOut.val),
             db_calls |-> sch.calls, llm_calls |-> call]

\* GenStage whose except branch falls back to a default statement
GenStage_Fallback(d, q, info, promptExc, llmOut) ==
    LET c == SqlChain(d, q, info, promptExc, llmOut)
    IN IF c.raised # ""
       THEN [generated_sql |-> Some(SelectX), code |-> NoText,
             stage |-> c.stage, raw |-> NoText,
             messages |-> <<Msg("error", "Error generating SQL: ", c.raised)>>,
             db_calls |-> c.db_calls, llm_calls |-> c.llm_calls]
       ELSE [generated_sql |-> Some(extract_sql(c.raw[1])),
             code |-> Some(extract_sql(c.raw[1])), stage |-> "none",
             raw |-> c.raw,
             messages |-> <<Msg("success", "SQL Query Generated!", "")>>,
             db_calls |-> c.db_calls, llm_calls |-> c.llm_calls]

\* lines 193-200: the generation stage
GenStage(d, q, info, promptExc, llmOut) ==
    LET c == SqlChain(d, q, info, promptExc, llmOut)
    IN IF c.raised # ""
       THEN [generated_sql |-> NoText, code |-> NoText, stage |-> c.stage,
             raw |-> NoText,
             messages |-> <<Msg("error", "Error generating SQL: ", c.raised)>>,
             db_calls |-> c.db_calls, llm_calls |-> c.llm_calls]
       ELSE [generated_sql |-> Some(extract_sql(c.raw[1])),
             code |-> Some(extract_sql(c.raw[1])), stage |-> "none",
             raw |-> c.raw,
             messages |-> <<Msg("success", "SQL Query Generated!", "")>>,
             db_calls |-> c.db_calls, llm_calls |-> c.llm_calls]

\* ExecStage guarded by the SQL alone and calling db.run itself
ExecStage_DirectRun(d, g, res) ==
    IF SqlTruthy(g)
    THEN [attempted |-> TRUE,
          db_calls |-> <<[op |-> "run", on |-> d, sql |-> g, ans |-> res]>>,
          messages |->
              IF res.raised = ""
              THEN <<Msg("subheader", "SQL Query Result:", ""),
                     Msg("write", res.val, "")>>
              ELSE <<Msg("error", "Error running query: ", res.raised)>>]
    ELSE [attempted |-> FALSE, db_calls |-> <<>>, messages |-> <<>>]

\* ExecStage guarded by the SQL alone
ExecStage_NoHandleCheck(d, g, res) ==
    IF SqlTruthy(g)
    THEN LET r == run_generated_query(d, g[1], res)
         IN [attempted |-> TRUE, db_calls |-> r.calls,
             messages |->
                 IF r.raised = ""
                 THEN <<Msg("subheader", "SQL Query Result:", ""),
                        Msg("write", r.val, "")>>
                 ELSE <<Msg("error", "Error running query: ", r.raised)>>]
    ELSE [attempted |-> FALSE, db_calls |-> <<>>, messages |-> <<>>]

\* lines 203-210: the execution stage
ExecStage(d, g, res) ==
    IF SqlTruthy(g) /\ HandleTruthy(d)
    THEN LET r == run_generated_query(d, g[1], res)
         IN [attempted |-> TRUE, db_calls |-> r.calls,
             messages |->
                 IF r.raised = ""
                 THEN <<Msg("subheader", "SQL Query Result:", ""),
                        Msg("write", r.val, "")>>
                 ELSE <<Msg("error", "Error running query: ", r.raised)>>]
    ELSE [attempted |-> FALSE, db_calls |-> <<>>, messages |-> <<>>]

\* GenerateHandler without the check of the question
GenerateHandler_NoGuard(d, q, info, promptExc, llmOut, res) ==
    LET g == GenStage(d, q, info, promptExc, llmOut)
        x == ExecStage(d, g.generated_sql, res)
    IN [generated_sql |-> g.generated_sql, code |-> g.code, raw |-> g.raw,
        stage |-> g.stage, messages |-> g.messages \o x.messages,
        attempted |-> x.attempted, db_calls |-> g.db_calls \o x.db_calls,
        llm_calls |-> g.llm_calls]

\* lines 186-210: generated_sql = None, then the button's handler
GenerateHandler(d, q, info, promptExc, llmOut, res) ==
    IF q = ""
    THEN [generated_sql |-> NoText, code |-> NoText, stage |-> "none",
          raw |-> NoText,
          messages |-> <<Msg("warning",
                   "Please enter a question to generate an SQL query.", "")>>,
          attempted |-> FALSE, db_calls |-> <<>>, llm_calls |-> <<>>]
    ELSE LET g == GenStage(d, q, info, promptExc, llmOut)
             x == ExecStage(d, g.generated_sql, res)
         IN [generated_sql |-> g.generated_sql, code |-> g.code, raw |-> g.raw,
             stage |-> g.stage, messages |-> g.messages \o x.messages,
             attempted |-> x.attempted, db_calls |-> g.db_calls \o x.db_calls,
             llm_calls |-> g.llm_calls]

\* ConnectHandler whose except branch leaves the stored handle alone
ConnectHandler_KeepsHandle(d, out) ==
    IF out.raised = ""
    THEN [db |-> out.val,
          sidebar |-> Msg("success", "Connected to database successfully!", "")]
    ELSE [db |-> d,
          sidebar |-> Msg("error", "Failed to connect to database: ", out.raised)]

\* lines 97-104; out is what SQLDatabase.from_uri answers
ConnectHandler(d, out) ==
    IF out.raised = ""
    THEN [db |-> out.val,
          sidebar |-> Msg("success", "Connected to database successfully!", "")]
    ELSE [db |-> None,
          sidebar |-> Msg("error", "Failed to connect to database: ", out.raised)]

----------------------------------------------------------------------------
(* The session: one action per script run *)

Init ==
    /\ db = Absent
    /\ rendered = FALSE
    /\ nconn = 0
    /\ clicked = "none"
    /\ db_before = None
    /\ conn_raised = ""
    /\ sidebar = NoMsg
    /\ user_question = ""
    /\ gen_raised = "none"
    /\ messages = <<>>
    /\ raw_output = NoText
    /\ code_shown = NoText
    /\ generated_sql = NoText
    /\ exec_attempted = FALSE
    /\ db_calls = <<>>
    /\ llm_calls = <<>>
    /\ arg = <<>>
    /\ cur = <<>>
    /\ prev = <<>>
    /\ nfix = 0
    /\ extracted = FALSE
    /\ ret = [fn |-> "", raised |-> "", val |-> ""]

\* lines 186-188 when the generate button was not clicked in this run
NoGenerate ==
    /\ gen_raised' = "none"
    /\ messages' = <<>>
    /\ raw_output' = NoText
    /\ code_shown' = NoText
    /\ generated_sql' = NoText
    /\ exec_attempted' = FALSE
    /\ db_calls' = <<>>
    /\ llm_calls' = <<>>

\* a run with no button clicked: the first load, or an edited text field
Rerun ==
    \E q \in Questions :
        /\ db' = EnsureDb(db)
        /\ db_before' = SessionGet(db)
        /\ rendered' = TRUE
        /\ clicked' = "none"
        /\ conn_raised' = ""
        /\ sidebar' = NoMsg
        /\ user_question' = q
        /\ NoGenerate
        /\ UNCHANGED <<nconn, arg, cur, prev, nfix, extracted, ret>>

\* a run with "Connect to Database" clicked
Connect ==
    /\ rendered
    /\ \E out \in Outcomes({nconn + 1}, None) :
        /\ out.raised = "" => nconn < MaxConnects
        /\ db' = ConnectHandler(EnsureDb(db), out).db
        /\ sidebar' = ConnectHandler(EnsureDb(db), out).sidebar
        /\ conn_raised' = out.raised
        /\ nconn' = IF out.raised = "" THEN nconn + 1 ELSE nconn
    /\ db_before' = SessionGet(db)
    /\ clicked' = "connect"
    /\ NoGenerate
    /\ UNCHANGED <<rendered, user_question, arg, cur, prev, nfix, extracted, ret>>

\* a run with "Generate SQL Query" clicked
Generate ==
    /\ rendered
    /\ \E q \in Questions, info \in Outcomes(Schemas, ""),
          promptExc \in Exceptions \cup {""},
          llmOut \in Outcomes(RawOutputs, <<>>),
          res \in Outcomes(Results, "") :
        LET h == GenerateHandler(EnsureDb(db), q, info, promptExc, llmOut, res)
        IN /\ user_question' = q
           /\ gen_raised' = h.stage
           /\ messages' = h.messages
           /\ raw_output' = h.raw
           /\ code_shown' = h.code
           /\ generated_sql' = h.generated_sql
           /\ exec_attempted' = h.attempted
           /\ db_calls' = h.db_calls
           /\ llm_calls' = h.llm_calls
    /\ db' = EnsureDb(db)
    /\ db_before' = SessionGet(db)
    /\ clicked' = "generate"
    /\ conn_raised' = ""
    /\ sidebar' = NoMsg
    /\ UNCHANGED <<rendered, nconn, arg, cur, prev, nfix, extracted, ret>>

Next == Rerun \/ Connect \/ Generate

Spec == Init /\ [][Next]_vars

----------------------------------------------------------------------------
(* extract_sql and its replacements, called directly *)

Block == Concat(<<FenceSql, Nl, FromActors, Nl, Fence>>)

Chunks ==
    {FenceSql, Fence, <<BT>>, Nl, FromActors, <<"s">>, JoinRoles, <<"x">>,
     Block}

\* every concatenation of at most MaxChunks chunks
Inputs ==
    UNION {{Concat(t) : t \in [1..n -> Chunks]} : n \in 0..MaxChunks}

InitText ==
    /\ arg \in Inputs
    /\ cur = arg
    /\ prev = arg
    /\ nfix = 0
    /\ extracted = FALSE
    /\ db = None
    /\ rendered = FALSE
    /\ nconn = 0
    /\ clicked = "none"
    /\ db_before = None
    /\ conn_raised = ""
    /\ sidebar = NoMsg
    /\ user_question = ""
    /\ gen_raised = "none"
    /\ messages = <<>>
    /\ raw_output = NoText
    /\ code_shown = NoText
    /\ generated_sql = NoText
    /\ exec_attempted = FALSE
    /\ db_calls = <<>>
    /\ llm_calls = <<>>
    /\ ret = [fn |-> "", raised |-> "", val |-> ""]

\* extract_sql(arg): lines 159-162, then one application of lines 164-165
CallExtractSql ==
    /\ ~extracted
    /\ nfix = 0
    /\ prev' = Unfence(arg)
    /\ cur' = extract_sql(arg)
    /\ nfix' = 1
    /\ extracted' = TRUE
    /\ UNCHANGED <<arg, db, db_calls, ret, sessionVars>>

\* lines 164-165 applied to the current text
ApplyFixNames ==
    /\ nfix < MaxFix
    /\ prev' = cur
    /\ cur' = FixNames(cur)
    /\ nfix' = nfix + 1
    /\ UNCHANGED <<arg, extracted, db, db_calls, ret, sessionVars>>

NextText == CallExtractSql \/ ApplyFixNames

SpecText == InitText /\ [][NextText]_vars

----------------------------------------------------------------------------
(* get_schema and run_generated_query, called directly *)

InitUnit ==
    /\ db \in {Absent, None} \cup (1..MaxConnects)
    /\ arg \in RawOutputs
    /\ cur = arg
    /\ prev = arg
    /\ nfix = 0
    /\ extracted = FALSE
    /\ rendered = FALSE
    /\ nconn = 0
    /\ clicked = "none"
    /\ db_before = None
    /\ conn_raised = ""
    /\ sidebar = NoMsg
    /\ user_question = ""
    /\ gen_raised = "none"
    /\ messages = <<>>
    /\ raw_output = NoText
    /\ code_shown = NoText
    /\ generated_sql = NoText
    /\ exec_attempted = FALSE
    /\ db_calls = <<>>
    /\ llm_calls = <<>>
    /\ ret = [fn |-> "", raised |-> "", val |-> ""]

CallGetSchema ==
    \E info \in Outcomes(Schemas, "") :
        LET r == get_schema(db, info)
        IN /\ ret' = [fn |-> "get_schema", raised |-> r.raised, val |-> r.val]
           /\ db_calls' = r.calls
           /\ UNCHANGED <<db, textVars, sessionVars>>

CallRunGeneratedQuery ==
    \E res \in Outcomes(Results, "") :
        LET r == run_generated_query(db, arg, res)
        IN /\ ret' = [fn |-> "run_generated_query", raised |-> r.raised,
                      val |-> r.val]
           /\ db_calls' = r.calls
           /\ UNCHANGED <<db, textVars, sessionVars>>

NextUnit == CallGetSchema \/ CallRunGeneratedQuery

SpecUnit == InitUnit /\ [][NextUnit]_vars

----------------------------------------------------------------------------
(* Properties of the session (Spec) *)

RunCalls == {i \in 1..Len(db_calls) : db_calls[i].op = "run"}

HasMsg(widget, text) ==
    \E i \in 1..Len(messages) :
        messages[i][1] = widget /\ messages[i][2] = text

GenError(e) == Msg("error", "Error generating SQL: ", e)
GenSuccess == Msg("success", "SQL Query Generated!", "")
GenWarning ==
    Msg("warning", "Please enter a question to generate an SQL query.", "")

\* C1: db.run is only ever called on a handle, and only in a run that
\* began with a handle stored; it is never called on None.
C1_RunOnlyWithHandle ==
    \A i \in RunCalls :
        /\ db_calls[i].on \in 1..nconn
        /\ db_before # None
        /\ db # None

C1_Witness ==
    /\ clicked = "generate"
    /\ RunCalls # {}
    /\ db \in 1..nconn

\* C2: after a connect whose try block raised, the stored handle is None and
\* the sidebar shows the connection error with the exception's text,
\* whatever handle was stored before.
C2_FailedConnectClearsHandle ==
    (clicked = "connect" /\ conn_raised # "") =>
        /\ db = None
        /\ sidebar = Msg("error", "Failed to connect to database: ", conn_raised)

C2_Witness ==
    /\ clicked = "connect"
    /\ conn_raised # ""
    /\ db_before \in 1..nconn
    /\ db = None

\* C3: a generate with a non-empty question whose generation stage raised
\* produces and shows no SQL, shows exactly the generation error, and does
\* not enter the execution stage.
C3_GenerationFailureSkipsExecution ==
    (clicked = "generate" /\ user_question # "" /\ gen_raised # "none") =>
        /\ generated_sql = NoText
        /\ code_shown = NoText
        /\ \E e \in Exceptions : messages = <<GenError(e)>>
        /\ ~exec_attempted
        /\ RunCalls = {}

C3_Witness ==
    /\ clicked = "generate"
    /\ user_question # ""
    /\ gen_raised = "llm"
    /\ db \in 1..nconn
    /\ Len(llm_calls) = 1
    /\ ~exec_attempted

\* C4: a generate with an empty question calls neither collaborator, shows
\* exactly the validation warning, produces no SQL and does not enter the
\* execution stage.
C4_EmptyQuestionOnlyWarns ==
    (clicked = "generate" /\ user_question = "") =>
        /\ llm_calls = <<>>
        /\ db_calls = <<>>
        /\ messages = <<GenWarning>>
        /\ generated_sql = NoText
        /\ code_shown = NoText
        /\ ~exec_attempted

C4_Witness ==
    /\ clicked = "generate"
    /\ user_question = ""
    /\ db \in 1..nconn
    /\ messages = <<GenWarning>>

\* C5: a generate with a non-empty question and no handle never queries the
\* database; the completion client is called with the sentinel as schema
\* (always, once the prompt is built); when the completion succeeds the
\* extracted SQL is shown; the execution stage is not entered and no
\* execution error is shown.
C5_GenerateWithoutHandle ==
    (clicked = "generate" /\ user_question # "" /\ db = None) =>
        /\ db_calls = <<>>
        /\ gen_raised # "schema"
        /\ \A i \in 1..Len(llm_calls) :
               llm_calls[i] = [schema |-> Sentinel, question |-> user_question]
        /\ gen_raised \in {"none", "llm"} => Len(llm_calls) = 1
        /\ gen_raised = "none" =>
               /\ raw_output # NoText
               /\ code_shown = Some(extract_sql(raw_output[1]))
               /\ messages = <<GenSuccess>>
        /\ ~exec_attempted
        /\ ~HasMsg("error", "Error running query: ")

C5_Witness ==
    /\ clicked = "generate"
    /\ user_question # ""
    /\ db = None
    /\ nconn >= 1
    /\ gen_raised = "none"
    /\ Len(llm_calls) = 1
    /\ code_shown # NoText
    /\ SqlTruthy(code_shown)

\* C9: the handle is None after the first run, a run without a click and a
\* generate leave it as it was, a connect stores the new handle or None;
\* every database call of a run is made on the stored handle.
C9_OnlyConnectChangesHandle ==
    /\ rendered => db # Absent
    /\ (rendered /\ nconn = 0) => db = None
    /\ (rendered /\ clicked \in {"generate", "none"}) => db = db_before
    /\ clicked = "connect" => db = (IF conn_raised = "" THEN nconn ELSE None)
    /\ \A i \in 1..Len(db_calls) : db_calls[i].on = db

C9_Witness ==
    /\ clicked = "generate"
    /\ db = 2
    /\ db_before = 2
    /\ Len(db_calls) = 2
    /\ db_calls[1].op = "get_table_info"
    /\ db_calls[2].op = "run"

\* C10: in a generate with a non-empty question the execution stage is
\* entered exactly when generation succeeded with a non-empty SQL string and
\* a handle is stored, and then runs that string; an empty extraction shows
\* the success message and an empty code block without execution; a run
\* without the generate click has no SQL and executes nothing.
C10_ExecutionExactlyWhen ==
    /\ (clicked = "generate" /\ user_question # "") =>
           /\ exec_attempted <=>
                  /\ gen_raised = "none"
                  /\ generated_sql # NoText
                  /\ generated_sql[1] # <<>>
                  /\ db # None
           /\ exec_attempted =>
                  /\ Cardinality(RunCalls) = 1
                  /\ \A i \in RunCalls : db_calls[i].sql = generated_sql
           /\ (gen_raised = "none" /\ generated_sql = Some(<<>>)) =>
                  /\ messages = <<GenSuccess>>
                  /\ code_shown = Some(<<>>)
    /\ ~exec_attempted => RunCalls = {}
    /\ clicked # "generate" =>
           /\ generated_sql = NoText
           /\ ~exec_attempted

C10_Witness ==
    /\ clicked = "generate"
    /\ gen_raised = "none"
    /\ raw_output # NoText
    /\ raw_output[1] # <<>>
    /\ generated_sql = Some(<<>>)
    /\ code_shown = Some(<<>>)
    /\ db \in 1..nconn
    /\ ~exec_attempted

----------------------------------------------------------------------------
(* Properties of extract_sql (SpecText) *)

FromActorsS == FromActors \o <<"s">>

\* the sql marker occurs, and a fence occurs after the first marker
HasFencedBlock(s) ==
    LET i == Find(s, FenceSql, 1)
    IN i # 0 /\ Find(s, Fence, i + Len(FenceSql)) # 0

\* the text strictly between the first marker and the first fence after it
Between(s) ==
    LET i == Find(s, FenceSql, 1)
        j == Find(s, Fence, i + Len(FenceSql))
    IN SubSeq(s, i + Len(FenceSql), j - 1)

\* the first fence after the first marker does not overlap a later marker
\* (it does in a run of four or five grave accents followed by sql)
FenceClear(s) ==
    LET i == Find(s, FenceSql, 1)
        j == Find(s, Fence, i + Len(FenceSql))
        k == Find(s, FenceSql, i + Len(FenceSql))
    IN k = 0 \/ j = k \/ j + Len(Fence) <= k

JustExtracted == extracted /\ nfix = 1

\* C6 as stated: a fenced block yields exactly the trimmed text between the
\* first marker and the first fence after it.
C6_ExactlyTheFencedText ==
    (JustExtracted /\ HasFencedBlock(arg)) => cur = Strip(Between(arg))

\* C6, amended: a fenced block whose closing fence does not overlap a later
\* marker yields the trimmed text between the first marker and the first
\* fence after it with the two replacements applied; an input without the
\* marker yields the whole trimmed input with the two replacements applied.
C6_FencedTextThenReplacements ==
    JustExtracted =>
        /\ (HasFencedBlock(arg) /\ FenceClear(arg)) =>
               cur = FixNames(Strip(Between(arg)))
        /\ ~Contains(arg, FenceSql) => cur = FixNames(Strip(arg))

C6_Witness ==
    /\ JustExtracted
    /\ HasFencedBlock(arg)
    /\ arg[1] = "x"
    /\ arg[Len(arg)] = "x"
    /\ Contains(Between(arg), FromActors)
    /\ cur = FromActor

\* C7 as stated: a second application of the two replacements changes
\* nothing.
C7_SecondApplicationChangesNothing ==
    nfix >= 2 => cur = prev

\* C7, amended: a second application of the two replacements changes
\* nothing when the input does not contain "FROM actorss".
C7_IdempotentWithoutActorss ==
    (nfix >= 2 /\ ~Contains(arg, FromActorsS)) => cur = prev

C7_Witness ==
    /\ nfix = 2
    /\ ~extracted
    /\ ~Contains(arg, FromActorsS)
    /\ Contains(arg, FromActors)
    /\ Contains(arg, JoinRoles)
    /\ cur = prev
    /\ cur # arg

----------------------------------------------------------------------------
(* Properties of get_schema and run_generated_query (SpecUnit) *)

\* C8: without a handle get_schema returns the sentinel and
\* run_generated_query raises "No database connection.", neither calling the
\* database; with a handle get_schema makes one get_table_info call on it
\* and returns that call's answer.
C8_NoHandleNoCall ==
    /\ (ret.fn = "get_schema" /\ SessionGet(db) = None) =>
           /\ ret.raised = ""
           /\ ret.val = Sentinel
           /\ db_calls = <<>>
    /\ (ret.fn = "run_generated_query" /\ SessionGet(db) = None) =>
           /\ ret.raised = NoConnection
           /\ db_calls = <<>>
    /\ (ret.fn = "get_schema" /\ SessionGet(db) # None) =>
           /\ Len(db_calls) = 1
           /\ db_calls[1].op = "get_table_info"
           /\ db_calls[1].on = db
           /\ ret.raised = db_calls[1].ans.raised
           /\ ret.val = db_calls[1].ans.val

C8_Witness ==
    /\ ret.fn = "run_generated_query"
    /\ db = None
    /\ arg # <<>>
    /\ ret.raised = NoConnection
    /\ db_calls = <<>>

====
